---------------------------- MODULE Spec2Model ----------------------------
(***************************************************************************)
(* A model of the LLM question-answering system: the question normalizer,  *)
(* the prompt builder, the remote answer client, the orchestrator          *)
(* (llm_qa_core.py), the JSON endpoint (app.py) and the interactive        *)
(* command-line loop (LLM_QA_CLI.py).                                      *)
(*                                                                         *)
(* A Python str is a sequence of one-character strings.  An Optional[str]  *)
(* is a sequence of length at most one: <<>> is None, <<s>> is the str s.  *)
(***************************************************************************)
EXTENDS Integers, Sequences, FiniteSets, TLC

VARIABLES
  pc,           \* position of the running operation
  question,     \* the question handed to preprocess / answer_question
  processed,    \* the ProcessedQuestion of `question`
  reprocessed,  \* the ProcessedQuestion of processed.processed_text
  prompt,       \* the prompt handed to generate_response
  client,       \* the LLMClient: its fields and whether the provider library imported
  provider,     \* what the provider has been asked in this execution
  answer,       \* the outcome of generate_response
  result,       \* the outcome of answer_question
  args,         \* the arguments the client is constructed from
  env,          \* the environment variables the constructor reads
  request,      \* the body of the POST to /api/ask
  response,     \* the response to it
  stdin,        \* the lines typed at the interactive prompt, and how many were read
  calls         \* the questions a front end has handed to answer_question

vars ==
  <<pc, question, processed, reprocessed, prompt, client, provider, answer, result,
    args, env, request, response, stdin, calls>>

\* what answer_question works on
askVars == <<question, processed, reprocessed, prompt, provider, answer, result>>
\* what the front ends and the constructor work on
frontVars == <<args, env, request, response, stdin, calls>>

-----------------------------------------------------------------------------
(* Bounds *)

\* longest question handed to the normalizer on its own
MaxNormLen == 4
\* longest question handed to answer_question
MaxQuestionLen == 4
\* longest question string in the body of a POST to /api/ask
MaxApiLen == 3
\* most lines typed at the interactive prompt
MaxLines == 3
\* longest prompt handed to generate_response by a caller of its own (the long
\* last lines, of about PreviewLen characters, aside)
MaxPromptLen == 3

-----------------------------------------------------------------------------
(* Python str primitives *)

Min(S) == CHOOSE x \in S : \A y \in S : x <= y
Max(S) == CHOOSE x \in S : \A y \in S : x >= y

\* every str over the characters S of length at most n
StrUpTo(S, n) == UNION {[1..k -> S] : k \in 0..n}

UpperCase ==
  <<"A", "B", "C", "D", "E", "F", "G", "H", "I", "J", "K", "L", "M",
    "N", "O", "P", "Q", "R", "S", "T", "U", "V", "W", "X", "Y", "Z">>
LowerCase ==
  <<"a", "b", "c", "d", "e", "f", "g", "h", "i", "j", "k", "l", "m",
    "n", "o", "p", "q", "r", "s", "t", "u", "v", "w", "x", "y", "z">>
Digits == {"0", "1", "2", "3", "4", "5", "6", "7", "8", "9"}

Range(f) == {f[i] : i \in DOMAIN f}

\* \w of the re module (the ASCII part of it)
IsWord(c) == c \in Range(UpperCase) \cup Range(LowerCase) \cup Digits \cup {"_"}
\* str.isspace of one character (the ASCII part that a TLA+ string can spell)
IsSpace(c) == c \in {" ", "\t", "\n", "\r", "\f"}

\* str.lower of one character
LowerChar(c) ==
  IF c \in Range(UpperCase)
    THEN LowerCase[CHOOSE i \in DOMAIN UpperCase : UpperCase[i] = c]
    ELSE c

\* str.lower()
lower(s) == [i \in 1..Len(s) |-> LowerChar(s[i])]

\* str.strip()
strip(s) ==
  LET keep == {i \in 1..Len(s) : ~IsSpace(s[i])}
  IN  IF keep = {} THEN <<>> ELSE SubSeq(s, Min(keep), Max(keep))

\* sep.join(parts)
RECURSIVE join(_, _)
join(sep, parts) ==
  IF parts = <<>> THEN <<>>
  ELSE IF Len(parts) = 1 THEN parts[1]
  ELSE parts[1] \o sep \o join(sep, Tail(parts))

\* needle in hay
Contains(hay, needle) ==
  \E i \in 0..(Len(hay) - Len(needle)) :
    \A k \in 1..Len(needle) : hay[i + k] = needle[k]

\* hay.startswith(prefix)
StartsWith(hay, prefix) ==
  /\ Len(prefix) <= Len(hay)
  /\ \A k \in 1..Len(prefix) : hay[k] = prefix[k]

-----------------------------------------------------------------------------
(* QuestionProcessor *)

\* \b at position p of s: between s[p-1] and s[p]
AtWordBoundary(s, p) ==
  LET before == p > 1 /\ IsWord(s[p - 1])
      after  == p <= Len(s) /\ IsWord(s[p])
  IN  before # after

\* where the match of \b\w+\b that starts at i ends (exclusive); 0 when there is none.
\* \w+ is greedy: of the ends that let the final \b match it takes the last.
MatchEnd(s, i) ==
  IF ~AtWordBoundary(s, i) THEN 0
  ELSE LET ends == {e \in (i + 1)..(Len(s) + 1) :
                      /\ \A k \in i..(e - 1) : IsWord(s[k])
                      /\ AtWordBoundary(s, e)}
       IN  IF ends = {} THEN 0 ELSE Max(ends)

\* token_pattern.findall(s), scanning from position i
RECURSIVE findall(_, _)
findall(s, i) ==
  IF i > Len(s) THEN <<>>
  ELSE LET e == MatchEnd(s, i)
       IN  IF e = 0 THEN findall(s, i + 1)
           ELSE <<SubSeq(s, i, e - 1)>> \o findall(s, e)

\* preprocess with the tokens taken from the text before it is lowercased
preprocess_tokens_of_cleaned(q) ==
  LET cleaned == strip(q)
      lowered == lower(cleaned)
      tokens  == findall(cleaned, 1)
  IN  [original       |-> cleaned,
       lowered        |-> lowered,
       tokens         |-> tokens,
       processed_text |-> join(<<" ">>, tokens)]

\* preprocess with the tokens joined by "_" instead of " "
preprocess_joined_by_underscore(q) ==
  LET cleaned == strip(q)
      lowered == lower(cleaned)
      tokens  == findall(lowered, 1)
  IN  [original       |-> cleaned,
       lowered        |-> lowered,
       tokens         |-> tokens,
       processed_text |-> join(<<"_">>, tokens)]

preprocess(q) ==
  LET cleaned == strip(q)
      lowered == lower(cleaned)
      tokens  == findall(lowered, 1)
  IN  [original       |-> cleaned,
       lowered        |-> lowered,
       tokens         |-> tokens,
       processed_text |-> join(<<" ">>, tokens)]

\* the dataclass before preprocess has filled it
NoProcessed ==
  [original |-> <<>>, lowered |-> <<>>, tokens |-> <<>>, processed_text |-> <<>>]

-----------------------------------------------------------------------------
(* textwrap.dedent, str.split, str.splitlines *)

\* s.split(sep) for a one-character sep
RECURSIVE split(_, _)
split(s, sep) ==
  LET hits == {i \in 1..Len(s) : s[i] = sep}
  IN  IF hits = {} THEN <<s>>
      ELSE <<SubSeq(s, 1, Min(hits) - 1)>> \o split(SubSeq(s, Min(hits) + 1, Len(s)), sep)

\* the line boundaries of str.splitlines (those a TLA+ string can spell)
IsLineBreak(c) == c \in {"\n", "\r", "\f"}

\* s.splitlines(): no line for the text after a final line break, none for ""
RECURSIVE splitlines(_)
splitlines(s) ==
  IF s = <<>> THEN <<>>
  ELSE LET hits == {i \in 1..Len(s) : IsLineBreak(s[i])}
       IN  IF hits = {} THEN <<s>>
           ELSE LET i == Min(hits)
                    j == IF s[i] = "\r" /\ i < Len(s) /\ s[i + 1] = "\n" THEN i + 1 ELSE i
                IN  <<SubSeq(s, 1, i - 1)>> \o splitlines(SubSeq(s, j + 1, Len(s)))

\* [ \t] of textwrap's patterns
IsBlank(c) == c \in {" ", "\t"}

\* the leading run of spaces and tabs of a line
LeadingBlanks(line) ==
  LET solid == {i \in 1..Len(line) : ~IsBlank(line[i])}
  IN  IF solid = {} THEN line ELSE SubSeq(line, 1, Min(solid) - 1)

\* one round of dedent's loop over the indents
NextMargin(margin, indent) ==
  IF StartsWith(indent, margin) THEN margin
  ELSE IF StartsWith(margin, indent) THEN indent
  ELSE LET differ == {i \in 1..Len(margin) : i <= Len(indent) /\ margin[i] # indent[i]}
       IN  SubSeq(margin, 1, Min(differ) - 1)

RECURSIVE FoldMargin(_, _)
FoldMargin(margin, indents) ==
  IF indents = <<>> THEN margin
  ELSE FoldMargin(NextMargin(margin, Head(indents)), Tail(indents))

\* textwrap.dedent(text): lines of only spaces and tabs are emptied, then the
\* longest leading run of spaces and tabs common to the other lines is removed
dedent(text) ==
  LET lines   == split(text, "\n")
      emptied == [i \in DOMAIN lines |->
                    IF \A k \in 1..Len(lines[i]) : IsBlank(lines[i][k])
                      THEN <<>> ELSE lines[i]]
      solid   == SelectSeq(emptied, LAMBDA l : l # <<>>)
      indents == [i \in DOMAIN solid |-> LeadingBlanks(solid[i])]
      margin  == IF indents = <<>> THEN <<>> ELSE FoldMargin(Head(indents), Tail(indents))
      cut     == [i \in DOMAIN emptied |->
                    IF margin # <<>> /\ StartsWith(emptied[i], margin)
                      THEN SubSeq(emptied[i], Len(margin) + 1, Len(emptied[i]))
                      ELSE emptied[i]]
  IN  join(<<"\n">>, cut)

\* s[:n]
Take(s, n) == SubSeq(s, 1, IF Len(s) < n THEN Len(s) ELSE n)

-----------------------------------------------------------------------------
(* The text of the two templates *)

\* the indentation of the template lines in the source (12 spaces)
Indent ==
  <<
    " ", " ", " ", " ", " ", " ", " ", " ", " ", " ", " ", " "
  >>

\* "You are a helpful university-level teaching assistant. Answer the user's"
PromptLine1 ==
  <<
    "Y", "o", "u", " ", "a", "r", "e", " ", "a", " ", "h", "e", "l", "p", "f", "u", "l", " ",
    "u", "n", "i", "v", "e", "r", "s", "i", "t", "y", "-", "l", "e", "v", "e", "l", " ", "t",
    "e", "a", "c", "h", "i", "n", "g", " ", "a", "s", "s", "i", "s", "t", "a", "n", "t", ".",
    " ", "A", "n", "s", "w", "e", "r", " ", "t", "h", "e", " ", "u", "s", "e", "r", "'", "s"
  >>

\* "question clearly and concisely. Cite key facts when appropriate and"
PromptLine2 ==
  <<
    "q", "u", "e", "s", "t", "i", "o", "n", " ", "c", "l", "e", "a", "r", "l", "y", " ", "a",
    "n", "d", " ", "c", "o", "n", "c", "i", "s", "e", "l", "y", ".", " ", "C", "i", "t", "e",
    " ", "k", "e", "y", " ", "f", "a", "c", "t", "s", " ", "w", "h", "e", "n", " ", "a", "p",
    "p", "r", "o", "p", "r", "i", "a", "t", "e", " ", "a", "n", "d"
  >>

\* "mention assumptions if the question lacks detail."
PromptLine3 ==
  <<
    "m", "e", "n", "t", "i", "o", "n", " ", "a", "s", "s", "u", "m", "p", "t", "i", "o", "n",
    "s", " ", "i", "f", " ", "t", "h", "e", " ", "q", "u", "e", "s", "t", "i", "o", "n", " ",
    "l", "a", "c", "k", "s", " ", "d", "e", "t", "a", "i", "l", "."
  >>

\* "Original question: "
OriginalLabel ==
  <<
    "O", "r", "i", "g", "i", "n", "a", "l", " ", "q", "u", "e", "s", "t", "i", "o", "n", ":",
    " "
  >>

\* "Normalized question: "
NormalizedLabel ==
  <<
    "N", "o", "r", "m", "a", "l", "i", "z", "e", "d", " ", "q", "u", "e", "s", "t", "i", "o",
    "n", ":", " "
  >>

\* "Answer:"
AnswerLabel ==
  <<
    "A", "n", "s", "w", "e", "r", ":"
  >>

\* "[Offline Response]"
OfflineLine1 ==
  <<
    "[", "O", "f", "f", "l", "i", "n", "e", " ", "R", "e", "s", "p", "o", "n", "s", "e", "]"
  >>

\* "Unable to reach the configured LLM provider. Please verify that an API key"
OfflineLine2 ==
  <<
    "U", "n", "a", "b", "l", "e", " ", "t", "o", " ", "r", "e", "a", "c", "h", " ", "t", "h",
    "e", " ", "c", "o", "n", "f", "i", "g", "u", "r", "e", "d", " ", "L", "L", "M", " ", "p",
    "r", "o", "v", "i", "d", "e", "r", ".", " ", "P", "l", "e", "a", "s", "e", " ", "v", "e",
    "r", "i", "f", "y", " ", "t", "h", "a", "t", " ", "a", "n", " ", "A", "P", "I", " ", "k",
    "e", "y"
  >>

\* "is available (set OPENAI_API_KEY or LLM_API_KEY). Last prompt line:"
OfflineLine3 ==
  <<
    "i", "s", " ", "a", "v", "a", "i", "l", "a", "b", "l", "e", " ", "(", "s", "e", "t", " ",
    "O", "P", "E", "N", "A", "I", "_", "A", "P", "I", "_", "K", "E", "Y", " ", "o", "r", " ",
    "L", "L", "M", "_", "A", "P", "I", "_", "K", "E", "Y", ")", ".", " ", "L", "a", "s", "t",
    " ", "p", "r", "o", "m", "p", "t", " ", "l", "i", "n", "e", ":"
  >>

\* "..."
Ellipsis ==
  <<
    ".", ".", "."
  >>

\* "[LLM Error] Unable to fetch response: "
LLMErrorPrefix ==
  <<
    "[", "L", "L", "M", " ", "E", "r", "r", "o", "r", "]", " ", "U", "n", "a", "b", "l", "e",
    " ", "t", "o", " ", "f", "e", "t", "c", "h", " ", "r", "e", "s", "p", "o", "n", "s", "e",
    ":", " "
  >>

\* str() of the IndexError of [][-1]
IndexErrorMessage ==
  <<
    "l", "i", "s", "t", " ", "i", "n", "d", "e", "x", " ", "o", "u", "t", " ", "o", "f", " ",
    "r", "a", "n", "g", "e"
  >>

\* how much of the last prompt line the offline response shows
PreviewLen == 120

-----------------------------------------------------------------------------
(* LLMQAService.build_prompt *)

\* the f-string of build_prompt, as written: before dedent and strip
PromptTemplate(original, processed_text) ==
  join(<<"\n">>,
       << <<>>,
          Indent \o PromptLine1,
          Indent \o PromptLine2,
          Indent \o PromptLine3,
          <<>>,
          Indent \o OriginalLabel \o original,
          Indent \o NormalizedLabel \o processed_text,
          <<>>,
          Indent \o AnswerLabel,
          Indent >>)

build_prompt(p) == strip(dedent(PromptTemplate(p.original, p.processed_text)))

-----------------------------------------------------------------------------
(* LLMClient *)

\* bool(x) of an Optional[str]
Truthy(opt) == opt # <<>> /\ opt[1] # <<>>

is_configured(c) == Truthy(c.api_key) /\ c.library

\* "gpt-4o-mini"
DefaultModel ==
  <<
    "g", "p", "t", "-", "4", "o", "-", "m", "i", "n", "i"
  >>

\* the default of the temperature parameter, 0.2.  A float is held in tenths.
DefaultTemperature == 2

\* the value main passes when --temperature is absent or zero, 0.2, in tenths
CliDefaultTemperature == 2

\* x or y, on Optional[str]
Or(x, y) == IF Truthy(x) THEN x ELSE y

\* the value of a decimal digit
DigitValue(c) ==
  CASE c = "0" -> 0 [] c = "1" -> 1 [] c = "2" -> 2 [] c = "3" -> 3 [] c = "4" -> 4
    [] c = "5" -> 5 [] c = "6" -> 6 [] c = "7" -> 7 [] c = "8" -> 8 [] c = "9" -> 9

\* float(s) of a str, in tenths: "d" and "d.d" are read here, and a str with a
\* character that is neither a digit nor "." (or with none) is a ValueError
float(s) ==
  IF Len(s) = 1 /\ s[1] \in Digits
    THEN [ok |-> TRUE, value |-> 10 * DigitValue(s[1])]
  ELSE IF Len(s) = 3 /\ s[1] \in Digits /\ s[2] = "." /\ s[3] \in Digits
    THEN [ok |-> TRUE, value |-> 10 * DigitValue(s[1]) + DigitValue(s[3])]
  ELSE [ok |-> FALSE, value |-> 0]

\* float(os.getenv("LLM_TEMPERATURE", temperature))
ResolveTemperature(temperature, e) ==
  IF e.LLM_TEMPERATURE = <<>> THEN [ok |-> TRUE, value |-> temperature]
  ELSE float(e.LLM_TEMPERATURE[1])

\* LLMClient.__init__: the fields it stores.  An environment variable is <<>> when
\* unset.  library tells whether `from openai import OpenAI` succeeded.
LLMClient_init(model, api_key, api_base, temperature, e, library) ==
  [model       |-> IF Truthy(model) THEN model
                   ELSE IF e.LLM_MODEL # <<>> THEN e.LLM_MODEL ELSE <<DefaultModel>>,
   api_key     |-> Or(Or(api_key, e.OPENAI_API_KEY), e.LLM_API_KEY),
   api_base    |-> Or(api_base, e.OPENAI_BASE_URL),
   temperature |-> ResolveTemperature(temperature, e).value,
   library     |-> library]

\* whether __init__ returns: float() of a bad LLM_TEMPERATURE raises ValueError
InitReturns(temperature, e) == ResolveTemperature(temperature, e).ok

\* an environment with nothing set
NoEnv ==
  [LLM_MODEL |-> <<>>, OPENAI_API_KEY |-> <<>>, LLM_API_KEY |-> <<>>,
   OPENAI_BASE_URL |-> <<>>, LLM_TEMPERATURE |-> <<>>]

\* what a call does: return a str, or raise an exception whose str() is text.
\* echo is the preview an offline response shows.
Return(text) == [kind |-> "return", text |-> text, echo |-> <<>>]
Raise(text) == [kind |-> "raise", text |-> text, echo |-> <<>>]

\* the f-string of _offline_response, as written
OfflineTemplate(preview) ==
  join(<<"\n">>,
       << <<>>,
          Indent \o OfflineLine1,
          Indent \o OfflineLine2,
          Indent \o OfflineLine3,
          Indent \o <<"\"">> \o Take(preview, PreviewLen) \o Ellipsis \o <<"\"">>,
          Indent >>)

_offline_response(p) ==
  LET lines == splitlines(p)
  IN  IF lines = <<>> THEN Raise(IndexErrorMessage)
      ELSE LET preview == lines[Len(lines)]
           IN  [kind |-> "return",
                text |-> strip(dedent(OfflineTemplate(preview))),
                echo |-> Take(preview, PreviewLen)]

\* generate_response without its except clause: the exception leaves it
OnProviderError_propagates(message) == Raise(message)

\* the except clause of generate_response: the exception becomes the answer
OnProviderError(message) == Return(LLMErrorPrefix \o message)

\* text_chunks: the value of every block of response.output that has a text with a
\* truthy value.  A block is <<>> (no text, or no value) or <<value>>.
text_chunks(output) ==
  LET kept == SelectSeq(output, Truthy)
  IN  [i \in DOMAIN kept |-> kept[i][1]]

\* the return statement after a response, inside the try
OnResponse(output, p) ==
  LET text == strip(join(<<"\n">>, text_chunks(output)))
      off  == _offline_response(p)
  IN  IF text # <<>> THEN Return(text)
      ELSE IF off.kind = "raise" THEN OnProviderError(off.text)
      ELSE off

\* What the provider library does with one request: the OpenAI constructor raises
\* ("ctor_raise"), responses.create raises ("raise"), or it returns a response.
Failed(kind, message) == [kind |-> kind, text |-> message, output |-> <<>>]
Responded(output) == [kind |-> "response", text |-> <<>>, output |-> output]

\* responses.create run again after it raised
ProviderCalls_retry(outcome) ==
  IF outcome.kind = "ctor_raise" THEN 0 ELSE IF outcome.kind = "raise" THEN 2 ELSE 1

\* how many times responses.create runs for one outcome of the try block
ProviderCalls(outcome) == IF outcome.kind = "ctor_raise" THEN 0 ELSE 1

\* the try block of generate_response under one outcome of the provider
TryProvider(outcome, p) ==
  IF outcome.kind = "response" THEN OnResponse(outcome.output, p)
  ELSE OnProviderError(outcome.text)

-----------------------------------------------------------------------------
(* LLMQAService.answer_question as one call, as the front ends make it *)

\* the outcome of answer_question from the outcome of generate_response
ResultOf(p, built, ans) ==
  IF ans.kind = "raise"
    THEN [kind |-> "raise", value |-> [message |-> ans.text]]
    ELSE [kind  |-> "return",
          value |-> [original_question  |-> p.original,
                     processed_question |-> p.processed_text,
                     tokens             |-> p.tokens,
                     prompt             |-> built,
                     answer             |-> ans.text]]

generate_response(c, p, outcome) ==
  IF ~is_configured(c) THEN _offline_response(p) ELSE TryProvider(outcome, p)

answer_question(q, c, outcome) ==
  LET p     == preprocess(q)
      built == build_prompt(p)
  IN  ResultOf(p, built, generate_response(c, built, outcome))

-----------------------------------------------------------------------------
(* app.py: the JSON endpoint *)

\* A JSON value as the handler sees it: its type, its truth value in Python, and
\* its text when it is a string.
JNull == [t |-> "null", truthy |-> FALSE, text |-> <<>>]
JBool(b) == [t |-> "bool", truthy |-> b, text |-> <<>>]
JNumber(nonzero) == [t |-> "number", truthy |-> nonzero, text |-> <<>>]
JString(s) == [t |-> "string", truthy |-> s # <<>>, text |-> s]
JArray(nonempty) == [t |-> "array", truthy |-> nonempty, text |-> <<>>]
JObject(nonempty) == [t |-> "object", truthy |-> nonempty, text |-> <<>>]

\* A request: parsed is FALSE when get_json(silent=True) gives None (no body, not
\* JSON, unparsable); data is the parsed value; member is its "question" member
\* when data is an object that has one (<<>> otherwise).
NoRequest == [parsed |-> FALSE, data |-> JNull, member |-> <<>>]

\* an exception that leaves the view function: Flask answers 500
ServerError(exception) ==
  [status |-> 500, body |-> [exception |-> exception], asked |-> <<>>]

\* api_ask: the response, and the questions it handed to answer_question
api_ask(req, c, outcome) ==
  LET given == req.parsed /\ req.data.truthy
      \* request.get_json(silent=True) or {}
      data  == IF given THEN req.data ELSE JObject(FALSE)
      \* data.get("question") or ""
      got   == IF given /\ req.member # <<>> /\ req.member[1].truthy
                 THEN req.member[1] ELSE JString(<<>>)
  IN  IF data.t # "object" THEN ServerError("AttributeError")
      ELSE IF got.t # "string" THEN ServerError("AttributeError")
      ELSE LET q == strip(got.text)
           IN  IF q = <<>>
                 THEN [status |-> 400,
                       body   |-> [error |-> "Question is required."],
                       asked  |-> <<>>]
                 ELSE LET r == answer_question(q, c, outcome)
                      IN  IF r.kind = "raise" THEN ServerError(r.value.message)
                          ELSE [status |-> 200,
                                body   |-> [question           |-> q,
                                            processed_question |-> r.value.processed_question,
                                            tokens             |-> r.value.tokens,
                                            answer             |-> r.value.answer],
                                asked  |-> <<q>>]

-----------------------------------------------------------------------------
(* LLM_QA_CLI.py: interactive_loop *)

\* "exit"
ExitWord ==
  <<
    "e", "x", "i", "t"
  >>

\* "quit"
QuitWord ==
  <<
    "q", "u", "i", "t"
  >>

\* question.lower() in {"exit", "quit"}, without the lower()
IsSentinel_case_sensitive(q) == q \in {ExitWord, QuitWord}

\* question.lower() in {"exit", "quit"}
IsSentinel(q) == lower(q) \in {ExitWord, QuitWord}

-----------------------------------------------------------------------------
(* Inputs *)

QuestionChars == {"a", "B", " ", "\n"}
Questions == StrUpTo(QuestionChars, MaxQuestionLen)

NormChars == {"a", "B", "7", "_", " ", "\n", "?"}
NormQuestions == StrUpTo(NormChars, MaxNormLen)

\* exception messages
Messages == {<<>>, <<"4", "0", "1">>, <<"n", "o", "\n", "r", "o", "u", "t", "e">>}

\* the output of a response: blocks without text, with an empty value, with text
Outputs ==
  { <<>>,
    << <<>> >>,
    << <<<<>>>> >>,
    << <<<<" ">>>> >>,
    << <<<<"o", "k">>>> >>,
    << <<<<" ">>>>, <<>>, <<<<"\n">>>> >>,
    << <<<<"o", "k", " ">>>>, <<>>, <<<<>>>>, <<<<"a", "\n">>>> >> }

ProviderOutcomes ==
  {Failed(k, m) : k \in {"ctor_raise", "raise"}, m \in Messages}
    \cup {Responded(o) : o \in Outputs}

\* the prompts a caller of generate_response may hand it: the short ones, and
\* ones whose last line is just under, at and over PreviewLen characters
PromptChars == {"a", " ", "\n", "\r"}
Filler(n) == [i \in 1..n |-> "x"]
Prompts ==
  StrUpTo(PromptChars, MaxPromptLen)
    \cup {s \o Filler(n) : s \in StrUpTo(PromptChars, 1),
                           n \in {PreviewLen - 1, PreviewLen, PreviewLen + 1}}

\* the bodies of a POST to /api/ask
ApiChars == {"a", " ", "\n"}
JsonValues ==
  {JNull, JBool(FALSE), JBool(TRUE), JNumber(FALSE), JNumber(TRUE),
   JArray(FALSE), JArray(TRUE), JObject(FALSE), JObject(TRUE)}
    \cup {JString(s) : s \in StrUpTo(ApiChars, MaxApiLen)}
Requests ==
  {NoRequest}
    \cup {[parsed |-> TRUE, data |-> d, member |-> <<>>] : d \in JsonValues}
    \cup {[parsed |-> TRUE, data |-> JObject(TRUE), member |-> <<v>>] : v \in JsonValues}

\* the lines typed at the interactive prompt
CliLines ==
  { <<>>,
    <<" ">>,
    <<"h", "i">>,
    <<"e", "x", "i", "t">>,
    <<"E", "X", "I", "T">>,
    <<" ", "Q", "u", "i", "t", " ">>,
    <<"e", "x", "i", "t", "s">> }
Inputs == StrUpTo(CliLines, MaxLines)

\* the clients the front ends may hold: with and without a credential, with and
\* without the provider library
Clients ==
  {LLMClient_init(<<>>, <<>>, <<>>, DefaultTemperature,
                  [NoEnv EXCEPT !.OPENAI_API_KEY = k], l) :
     k \in {<<>>, <<<<>>>>, <<<<"k">>>>}, l \in BOOLEAN}

NoArgs == [model |-> <<>>, api_key |-> <<>>, api_base |-> <<>>, temperature |-> <<>>]
NoStdin == [lines |-> <<>>, pos |-> 0]
NoResponse == [status |-> 0, body |-> [none |-> TRUE]]

\* what the provider does while the interactive loop runs
CliOutcomes ==
  {Failed("raise", <<"4", "0", "1">>), Responded(<<>>), Responded(<< <<<<"o", "k">>>> >>)}

\* the clients of the interactive loop: one without a credential, one with
CliClients ==
  {LLMClient_init(<<>>, <<>>, <<>>, CliDefaultTemperature,
                  [NoEnv EXCEPT !.OPENAI_API_KEY = k], TRUE) : k \in {<<>>, <<<<"k">>>>}}

NoClient ==
  [model |-> <<>>, api_key |-> <<>>, api_base |-> <<>>, temperature |-> 0,
   library |-> FALSE]
NoOutcome == [kind |-> "none", text |-> <<>>, output |-> <<>>]
NoProvider == [calls |-> 0, input |-> <<>>, outcome |-> NoOutcome]
NoAnswer == [kind |-> "none", text |-> <<>>, echo |-> <<>>]
NoResult == [kind |-> "none", value |-> <<>>]

-----------------------------------------------------------------------------
(* The normalizer on its own: preprocess, then preprocess of its own output *)

InitNorm ==
  /\ pc = "preprocess"
  /\ question \in NormQuestions
  /\ processed = NoProcessed
  /\ reprocessed = NoProcessed
  /\ prompt = <<>>
  /\ client = NoClient
  /\ provider = NoProvider
  /\ answer = NoAnswer
  /\ result = NoResult
  /\ args = NoArgs
  /\ env = NoEnv
  /\ request = NoRequest
  /\ response = NoResponse
  /\ stdin = NoStdin
  /\ calls = <<>>

Preprocess ==
  /\ pc = "preprocess"
  /\ processed' = preprocess(question)
  /\ pc' = "preprocessed"
  /\ UNCHANGED <<question, reprocessed, prompt, client, provider, answer, result, frontVars>>

Renormalize ==
  /\ pc = "preprocessed"
  /\ reprocessed' = preprocess(processed.processed_text)
  /\ pc' = "renormalized"
  /\ UNCHANGED <<question, processed, prompt, client, provider, answer, result, frontVars>>

NextNorm == Preprocess \/ Renormalize

SpecNorm == InitNorm /\ [][NextNorm]_vars

\* t is s without its leading and trailing whitespace
IsStripped(s, t) ==
  \E a, b \in 0..Len(s) :
    /\ a + Len(t) + b = Len(s)
    /\ \A i \in 1..a : IsSpace(s[i])
    /\ \A i \in (Len(s) - b + 1)..Len(s) : IsSpace(s[i])
    /\ \A i \in 1..Len(t) : t[i] = s[a + i]
    /\ t # <<>> => ~IsSpace(t[1]) /\ ~IsSpace(t[Len(t)])

\* the maximal runs of word characters of s, as <<first, last>> positions
WordRuns(s) ==
  {r \in (1..Len(s)) \X (1..Len(s)) :
     /\ r[1] <= r[2]
     /\ \A k \in r[1]..r[2] : IsWord(s[k])
     /\ r[1] = 1 \/ ~IsWord(s[r[1] - 1])
     /\ r[2] = Len(s) \/ ~IsWord(s[r[2] + 1])}

\* where the k-th of the parts starts in their join by one-character separators
RECURSIVE PartStart(_, _)
PartStart(parts, k) ==
  IF k = 1 THEN 1 ELSE PartStart(parts, k - 1) + Len(parts[k - 1]) + 1

\* text is the parts with exactly one space between neighbours
IsSpaceJoined(text, parts) ==
  IF parts = <<>> THEN text = <<>>
  ELSE /\ Len(text) = PartStart(parts, Len(parts)) + Len(parts[Len(parts)]) - 1
       /\ \A k \in 1..Len(parts) :
            /\ SubSeq(text, PartStart(parts, k), PartStart(parts, k) + Len(parts[k]) - 1)
                 = parts[k]
            /\ k > 1 => text[PartStart(parts, k) - 1] = " "

\* C6: preprocess(s) holds, as tokens, exactly the maximal runs of word characters
\* of the stripped, lowercased s, in order; no token is empty; processed_text is
\* the tokens joined by single spaces; and there are no tokens (and processed_text
\* is "") exactly when s has no word character.
C6_TokensAreMaximalRuns ==
  pc \in {"preprocessed", "renormalized"} =>
    LET L    == processed.lowered
        T    == processed.tokens
        runs == WordRuns(L)
    IN  /\ IsStripped(question, processed.original)
        /\ Len(L) = Len(processed.original)
        /\ \A i \in 1..Len(L) : L[i] = LowerChar(processed.original[i])
        /\ Len(T) = Cardinality(runs)
        /\ \A k \in 1..Len(T) :
             \E r \in runs :
               /\ Cardinality({o \in runs : o[1] < r[1]}) = k - 1
               /\ T[k] = SubSeq(L, r[1], r[2])
        /\ \A k \in 1..Len(T) : T[k] # <<>>
        /\ IsSpaceJoined(processed.processed_text, T)
        /\ (T = <<>>) <=> ~(\E i \in 1..Len(question) : IsWord(question[i]))
        /\ T = <<>> => processed.processed_text = <<>>

\* a question with surrounding whitespace, a capital and two tokens has been normalized
C6_Witness ==
  /\ pc = "preprocessed"
  /\ Len(processed.tokens) = 2
  /\ Len(processed.original) < Len(question)
  /\ processed.lowered # processed.original

\* C7: normalization is idempotent: preprocess of processed_text gives the tokens
\* and the processed_text that preprocess of the question gave.
C7_Idempotent ==
  pc = "renormalized" =>
    /\ reprocessed.tokens = processed.tokens
    /\ reprocessed.processed_text = processed.processed_text

\* a question that normalization changes, with two tokens, has been normalized twice
C7_Witness ==
  /\ pc = "renormalized"
  /\ Len(processed.tokens) = 2
  /\ processed.processed_text # question

-----------------------------------------------------------------------------
(* answer_question, one step per statement *)

InitAsk ==
  /\ pc = "preprocess"
  /\ question \in Questions
  /\ processed = NoProcessed
  /\ reprocessed = NoProcessed
  /\ prompt = <<>>
  /\ client \in Clients
  /\ provider = NoProvider
  /\ answer = NoAnswer
  /\ result = NoResult
  /\ args = NoArgs
  /\ env = NoEnv
  /\ request = NoRequest
  /\ response = NoResponse
  /\ stdin = NoStdin
  /\ calls = <<>>

BuildPrompt ==
  /\ pc = "preprocessed"
  /\ prompt' = build_prompt(processed)
  /\ pc' = "prompted"
  /\ UNCHANGED <<question, processed, reprocessed, client, provider, answer, result, frontVars>>

\* generate_response up to the try: the offline answer, or on to the provider
GenerateResponse ==
  /\ pc = "prompted"
  /\ IF ~is_configured(client)
       THEN /\ answer' = _offline_response(prompt)
            /\ pc' = "generated"
       ELSE /\ answer' = answer
            /\ pc' = "provider"
  /\ UNCHANGED <<question, processed, reprocessed, prompt, client, provider, result, frontVars>>

\* the try block of generate_response
ProviderCall ==
  /\ pc = "provider"
  /\ \E outcome \in ProviderOutcomes :
       /\ provider' = [calls   |-> provider.calls + ProviderCalls(outcome),
                       input   |-> IF ProviderCalls(outcome) > 0 THEN prompt ELSE provider.input,
                       outcome |-> outcome]
       /\ answer' = TryProvider(outcome, prompt)
  /\ pc' = "generated"
  /\ UNCHANGED <<question, processed, reprocessed, prompt, client, result, frontVars>>

\* the return statement of answer_question; an exception of generate_response
\* leaves answer_question too
ReturnResult ==
  /\ pc = "generated"
  /\ result' = ResultOf(processed, prompt, answer)
  /\ pc' = "done"
  /\ UNCHANGED <<question, processed, reprocessed, prompt, client, provider, answer, frontVars>>

Next == Preprocess \/ BuildPrompt \/ GenerateResponse \/ ProviderCall \/ ReturnResult

Spec == InitAsk /\ [][Next]_vars

\* C3: an exception raised while calling the provider never leaves
\* generate_response or answer_question: the answer is exactly
\* "[LLM Error] Unable to fetch response: " followed by the exception's message,
\* and answer_question returns the complete bundle.
C3_ProviderErrorBecomesAnswer ==
  pc \in {"generated", "done"} /\ provider.outcome.kind \in {"ctor_raise", "raise"} =>
    /\ answer.kind = "return"
    /\ answer.text = LLMErrorPrefix \o provider.outcome.text
    /\ pc = "done" =>
         /\ result.kind = "return"
         /\ DOMAIN result.value =
              {"original_question", "processed_question", "tokens", "prompt", "answer"}
         /\ result.value.answer = LLMErrorPrefix \o provider.outcome.text
         /\ result.value.original_question = processed.original
         /\ result.value.processed_question = processed.processed_text
         /\ result.value.tokens = processed.tokens
         /\ result.value.prompt = prompt

\* answer_question has returned after responses.create raised with a message
C3_Witness ==
  /\ pc = "done"
  /\ provider.outcome.kind = "raise"
  /\ provider.outcome.text # <<>>
  /\ result.kind = "return"

\* C4: the prompt built from a normalized question contains the original question
\* and the normalized text, each verbatim.
C4_PromptContainsQuestion ==
  pc \in {"prompted", "provider", "generated", "done"} =>
    /\ Contains(prompt, processed.original)
    /\ Contains(prompt, processed.processed_text)

\* C5: with an unconfigured client, the line the offline answer echoes contains
\* the user's question (its first 120 characters).
C5_EchoContainsQuestion ==
  pc \in {"generated", "done"} /\ ~is_configured(client) =>
    /\ answer.kind = "return"
    /\ Contains(answer.echo, Take(processed.original, PreviewLen))

\* C9: answer_question calls the provider at most once, never when the client is
\* not configured, and only with the prompt built from the normalized question,
\* after both steps are done.
C9_AtMostOneProviderCall ==
  /\ provider.calls <= 1
  /\ ~is_configured(client) => provider.calls = 0
  /\ pc \in {"preprocess", "preprocessed", "prompted", "provider"} => provider.calls = 0
  /\ provider.calls > 0 =>
       /\ provider.input = prompt
       /\ Contains(prompt, OriginalLabel)
       /\ Contains(prompt, NormalizedLabel \o processed.processed_text)

\* answer_question has returned after its one provider call, which raised
C9_Witness ==
  /\ pc = "done"
  /\ provider.calls = 1
  /\ processed.tokens # <<>>
  /\ provider.outcome.kind = "raise"

-----------------------------------------------------------------------------
(* generate_response on a prompt of the caller's *)

InitGen ==
  /\ pc = "prompted"
  /\ prompt \in Prompts
  /\ client \in Clients
  /\ question = <<>>
  /\ processed = NoProcessed
  /\ reprocessed = NoProcessed
  /\ provider = NoProvider
  /\ answer = NoAnswer
  /\ result = NoResult
  /\ args = NoArgs
  /\ env = NoEnv
  /\ request = NoRequest
  /\ response = NoResponse
  /\ stdin = NoStdin
  /\ calls = <<>>

NextGen == GenerateResponse \/ ProviderCall

SpecGen == InitGen /\ [][NextGen]_vars

\* the last line of a prompt: the text after its last line break, a line break
\* that ends the prompt aside
LastLine(p) ==
  LET body   == IF p # <<>> /\ IsLineBreak(p[Len(p)]) THEN SubSeq(p, 1, Len(p) - 1) ELSE p
      breaks == {i \in 1..Len(body) : IsLineBreak(body[i])}
  IN  IF breaks = {} THEN body ELSE SubSeq(body, Max(breaks) + 1, Len(body))

\* C2: with no credential, generate_response returns for every prompt, the empty
\* one too, a string that begins with "[Offline Response]" and contains the last
\* line of the prompt cut to 120 characters and followed by "..."; it never raises.
C2_OfflineResponseForEveryPrompt ==
  pc = "generated" /\ ~is_configured(client) =>
    /\ answer.kind = "return"
    /\ StartsWith(answer.text, OfflineLine1)
    /\ Contains(answer.text, Take(LastLine(prompt), PreviewLen) \o Ellipsis)

-----------------------------------------------------------------------------
(* Constructing the client: LLMClient(...) directly, and as main does *)

\* the arguments: <<>> is an argument (or a flag) that is not given
ArgSets ==
  [model       : {<<>>, <<<<>>>>, <<<<"m", "1">>>>},
   api_key     : {<<>>, <<<<"k", "1">>>>},
   api_base    : {<<>>, <<<<"b", "1">>>>},
   temperature : {<<>>, <<0>>, <<9>>}]

Envs ==
  [LLM_MODEL       : {<<>>, <<<<>>>>, <<<<"m", "2">>>>},
   OPENAI_API_KEY  : {<<>>, <<<<>>>>, <<<<"k", "2">>>>},
   LLM_API_KEY     : {<<>>, <<<<"k", "3">>>>},
   OPENAI_BASE_URL : {<<>>, <<<<"b", "2">>>>},
   LLM_TEMPERATURE : {<<>>, <<<<"0", ".", "7">>>>, <<<<"h", "o", "t">>>>}]

InitClient ==
  /\ pc = "construct"
  /\ args \in ArgSets
  /\ env \in Envs
  /\ client = NoClient
  /\ question = <<>>
  /\ processed = NoProcessed
  /\ reprocessed = NoProcessed
  /\ prompt = <<>>
  /\ provider = NoProvider
  /\ answer = NoAnswer
  /\ result = NoResult
  /\ request = NoRequest
  /\ response = NoResponse
  /\ stdin = NoStdin
  /\ calls = <<>>

\* LLMClient(model=.., api_key=.., api_base=.., temperature=..), an argument that is
\* not given taking the default of the signature
Construct ==
  /\ pc = "construct"
  /\ LET temperature == IF args.temperature = <<>> THEN DefaultTemperature
                        ELSE args.temperature[1]
     IN  IF InitReturns(temperature, env)
           THEN /\ client' = LLMClient_init(args.model, args.api_key, args.api_base,
                                            temperature, env, TRUE)
                /\ pc' = "constructed"
           ELSE /\ client' = client
                /\ pc' = "raised"
  /\ UNCHANGED <<askVars, args, env, request, response, stdin, calls>>

\* main: LLMClient(model=args.model, temperature=args.temperature or 0.2).  The
\* command line has no flag for the credential or the endpoint base.
MainConstruct ==
  /\ pc = "construct"
  /\ args.api_key = <<>> /\ args.api_base = <<>>
  /\ LET temperature == IF args.temperature = <<>> \/ args.temperature[1] = 0
                          THEN CliDefaultTemperature
                          ELSE args.temperature[1]
     IN  IF InitReturns(temperature, env)
           THEN /\ client' = LLMClient_init(args.model, <<>>, <<>>, temperature, env, TRUE)
                /\ pc' = "constructed"
           ELSE /\ client' = client
                /\ pc' = "raised"
  /\ UNCHANGED <<askVars, args, env, request, response, stdin, calls>>

NextClient == Construct \/ MainConstruct

SpecClient == InitClient /\ [][NextClient]_vars

\* the setting an argument, an environment variable and a default resolve to when
\* the argument wins over the environment and the environment over the default
Precedence(argument, environment, default) ==
  IF Truthy(argument) THEN argument
  ELSE IF Truthy(environment) THEN environment
  ELSE default

\* C1: each of model, credential, endpoint base and temperature is stored as the
\* argument if given, else the environment variable if set, else the default.
C1_ArgumentOverEnvironmentOverDefault ==
  pc = "constructed" =>
    /\ client.model =
         IF Truthy(args.model) THEN args.model
         ELSE IF env.LLM_MODEL # <<>> THEN env.LLM_MODEL
         ELSE <<DefaultModel>>
    /\ Truthy(client.api_key) \/ Truthy(args.api_key) \/ Truthy(env.OPENAI_API_KEY)
         \/ Truthy(env.LLM_API_KEY)
         => client.api_key = Precedence(args.api_key, env.OPENAI_API_KEY, env.LLM_API_KEY)
    /\ Truthy(client.api_base) \/ Truthy(args.api_base) \/ Truthy(env.OPENAI_BASE_URL)
         => client.api_base = Precedence(args.api_base, env.OPENAI_BASE_URL, <<>>)
    /\ client.temperature =
         IF args.temperature # <<>> THEN args.temperature[1]
         ELSE IF env.LLM_TEMPERATURE # <<>> THEN float(env.LLM_TEMPERATURE[1]).value
         ELSE DefaultTemperature

-----------------------------------------------------------------------------
(* POST /api/ask *)

InitApi ==
  /\ pc = "request"
  /\ request \in Requests
  /\ client \in Clients
  /\ response = NoResponse
  /\ calls = <<>>
  /\ question = <<>>
  /\ processed = NoProcessed
  /\ reprocessed = NoProcessed
  /\ prompt = <<>>
  /\ provider = NoProvider
  /\ answer = NoAnswer
  /\ result = NoResult
  /\ args = NoArgs
  /\ env = NoEnv
  /\ stdin = NoStdin

ApiAsk ==
  /\ pc = "request"
  /\ \E outcome \in ProviderOutcomes :
       \E r \in {api_ask(request, client, outcome)} :
         /\ response' = [status |-> r.status, body |-> r.body]
         /\ calls' = r.asked
  /\ pc' = "responded"
  /\ UNCHANGED <<askVars, client, args, env, request, stdin>>

NextApi == ApiAsk

SpecApi == InitApi /\ [][NextApi]_vars

\* the request carries a question that is a string with a character that is not
\* whitespace
HasQuestion(req) ==
  /\ req.parsed
  /\ req.data.t = "object"
  /\ req.member # <<>>
  /\ req.member[1].t = "string"
  /\ \E i \in 1..Len(req.member[1].text) : ~IsSpace(req.member[1].text[i])

\* C8: whatever the body of the POST, a blank or missing question is answered 400
\* with {"error": "Question is required."} and no call of the orchestrator, and
\* any other is answered 200 with exactly question, processed_question, tokens
\* and answer.
C8_BlankIs400ElseIs200 ==
  pc = "responded" =>
    IF HasQuestion(request)
      THEN /\ response.status = 200
           /\ DOMAIN response.body = {"question", "processed_question", "tokens", "answer"}
           /\ Len(calls) = 1
      ELSE /\ response.status = 400
           /\ response.body = [error |-> "Question is required."]
           /\ calls = <<>>

-----------------------------------------------------------------------------
(* The interactive loop of the command line *)

InitCli ==
  /\ pc = "input"
  /\ stdin \in [lines : Inputs, pos : {0}]
  /\ client \in CliClients
  /\ calls = <<>>
  /\ question = <<>>
  /\ processed = NoProcessed
  /\ reprocessed = NoProcessed
  /\ prompt = <<>>
  /\ provider = NoProvider
  /\ answer = NoAnswer
  /\ result = NoResult
  /\ args = NoArgs
  /\ env = NoEnv
  /\ request = NoRequest
  /\ response = NoResponse

\* input("Q> ").strip() and the two tests after it; EOFError at the end of input
ReadLine ==
  /\ pc = "input"
  /\ IF stdin.pos = Len(stdin.lines)
       THEN /\ pc' = "eof"
            /\ UNCHANGED <<stdin, question>>
       ELSE LET q == strip(stdin.lines[stdin.pos + 1])
            IN  /\ stdin' = [stdin EXCEPT !.pos = stdin.pos + 1]
                /\ question' = q
                /\ pc' = IF q = <<>> THEN "input"
                         ELSE IF IsSentinel(q) THEN "goodbye"
                         ELSE "answer"
  /\ UNCHANGED <<processed, reprocessed, prompt, provider, answer, result, client,
                 args, env, request, response, calls>>

\* KeyboardInterrupt while input() waits
Interrupt ==
  /\ pc = "input"
  /\ pc' = "interrupted"
  /\ UNCHANGED <<askVars, client, frontVars>>

\* result = service.answer_question(question); print(render_result(result))
Answer ==
  /\ pc = "answer"
  /\ calls' = Append(calls, question)
  /\ \E outcome \in CliOutcomes :
       pc' = IF answer_question(question, client, outcome).kind = "raise"
               THEN "raised" ELSE "input"
  /\ UNCHANGED <<askVars, client, args, env, request, response, stdin>>

NextCli == ReadLine \/ Interrupt \/ Answer

SpecCli == InitCli /\ [][NextCli]_vars

\* the line, stripped, is "exit" or "quit" in some letter case
IsStopLine(line) ==
  \E word \in {ExitWord, QuitWord} :
    \E a, b \in 0..Len(line) :
      /\ a + Len(word) + b = Len(line)
      /\ \A i \in 1..a : IsSpace(line[i])
      /\ \A i \in (Len(line) - b + 1)..Len(line) : IsSpace(line[i])
      /\ \A i \in 1..Len(word) :
           \E u \in DOMAIN LowerCase :
             LowerCase[u] = word[i] /\ line[a + i] \in {LowerCase[u], UpperCase[u]}

\* the line has only whitespace
IsBlankLine(line) == \A i \in 1..Len(line) : IsSpace(line[i])

\* the position of the first stop line, or one past the end when there is none
FirstStop(lines) ==
  Min({i \in 1..Len(lines) : IsStopLine(lines[i])} \cup {Len(lines) + 1})

\* the questions of the first n lines: those not blank, stripped, in order
QuestionsOf(lines, n) ==
  LET kept == SelectSeq(SubSeq(lines, 1, n), LAMBDA l : ~IsBlankLine(l))
  IN  [i \in DOMAIN kept |-> strip(kept[i])]

\* C10: the loop ends at the first line that is "exit" or "quit" (stripped, in any
\* letter case) or at the end of input; before that every blank line is skipped
\* without a call of answer_question and every other line gets exactly one, in
\* order, completed before the next line is read; no later line is read.
C10_LoopAnswersUntilSentinel ==
  LET lines == stdin.lines
      stop  == FirstStop(lines)
  IN  /\ stdin.pos <= stop /\ stdin.pos <= Len(lines)
      /\ pc = "input" => stdin.pos < stop /\ calls = QuestionsOf(lines, stdin.pos)
      /\ pc = "answer" =>
           /\ stdin.pos < stop
           /\ calls = QuestionsOf(lines, stdin.pos - 1)
           /\ Append(calls, question) = QuestionsOf(lines, stdin.pos)
      /\ pc = "goodbye" => stdin.pos = stop /\ calls = QuestionsOf(lines, stop - 1)
      /\ pc = "eof" =>
           /\ stop = Len(lines) + 1
           /\ stdin.pos = Len(lines)
           /\ calls = QuestionsOf(lines, Len(lines))
      /\ pc \in {"input", "answer", "goodbye", "eof", "interrupted"}

\* the loop has answered a question and stopped at a sentinel written in capitals
\* or between spaces, with a line left unread
C10_Witness ==
  /\ pc = "goodbye"
  /\ Len(calls) = 1
  /\ stdin.pos = 2
  /\ stdin.lines[2] # ExitWord
  /\ Len(stdin.lines) = 3

=============================================================================
